---- MODULE Spec2Model ----
(***************************************************************************)
(* A model of ratatui-sample: the application state machine of App::run    *)
(* (src/src/app.rs), the credential form and its persistence                *)
(* (src/src/config.rs), the identity call (src/src/openstack/token.rs) and  *)
(* the live view with its detached fetch task                               *)
(* (src/src/openstack/server.rs).                                           *)
(*                                                                         *)
(* Strings typed into the form are sequences over Chars.  Texts produced   *)
(* by format!/anyhow! are sequences of text pieces, so that "" is <<>> and  *)
(* concatenation is \o.                                                     *)
(***************************************************************************)
EXTENDS Integers, Sequences, FiniteSets, TLC

\* Longest value the keyboard may type into one form field.
MaxLen == 1

\* The characters of the keyboard.
Chars == {"a"}

-----------------------------------------------------------------------------
(* state.rs: AppState *)

Loading == [tag |-> "Loading"]

IssueToken(username, password, tenantid, identity_url) ==
    [tag |-> "IssueToken", username |-> username, password |-> password,
     tenantid |-> tenantid, identity_url |-> identity_url]

Server == [tag |-> "Server"]

Quit == [tag |-> "Quit"]

-----------------------------------------------------------------------------
(* config.rs: the form fields, Focus and Config *)

StringField(value) == [value |-> value]

\* "*".repeat(n)
Stars(n) == [i \in 1..n |-> "*"]

PasswordField(value, display_value) ==
    [value |-> value, display_value |-> display_value]

FieldsDefault ==
    [username |-> StringField(<<>>),
     password |-> PasswordField(<<>>, <<>>),
     tenantid |-> StringField(<<>>),
     identity_url |-> StringField(<<>>)]

FieldsFrom(config) ==
    [username |-> StringField(config.username),
     password |-> PasswordField(config.password, Stars(Len(config.password))),
     tenantid |-> StringField(config.tenantid),
     identity_url |-> StringField(config.identity_url)]

ConfigDefault ==
    [focus |-> "Username", message |-> <<>>, fields |-> FieldsDefault,
     username |-> <<>>, password |-> <<>>, tenantid |-> <<>>,
     identity_url |-> <<>>]

FocusNext(focus) ==
    CASE focus = "Username" -> "Password"
      [] focus = "Password" -> "TenantId"
      [] focus = "TenantId" -> "IdentityUrl"
      [] focus = "IdentityUrl" -> "Username"

\* Vec::pop on a String: the value without its last character, "" stays "".
Pop(s) == IF s = <<>> THEN s ELSE SubSeq(s, 1, Len(s) - 1)

\* Key events as handle_events sees them (event.as_key_press_event()):
\* NoKey is None, every other value is Some(key) with key.code = code.
NoKey == [code |-> "None", ch |-> "-"]

KeyEvents ==
    {[code |-> c, ch |-> "-"] : c \in {"Esc", "Tab", "Enter", "Backspace", "Left"}}
        \cup {[code |-> "Char", ch |-> c] : c \in Chars}

Events == KeyEvents \cup {NoKey}

StringFieldOnKeyPress(field, event) ==
    CASE event.code = "Char" -> [field EXCEPT !.value = Append(@, event.ch)]
      [] event.code = "Backspace" -> [field EXCEPT !.value = Pop(@)]
      [] OTHER -> field

PasswordFieldOnKeyPress(field, event) ==
    CASE event.code = "Char" ->
            [field EXCEPT !.value = Append(@, event.ch),
                          !.display_value = Append(@, "*")]
      [] event.code = "Backspace" ->
            [field EXCEPT !.value = Pop(@), !.display_value = Pop(@)]
      [] OTHER -> field

\* validate without its last conjunct.
validate_three(config) ==
    /\ config.fields.username.value # <<>>
    /\ config.fields.password.value # <<>>
    /\ config.fields.tenantid.value # <<>>

validate(config) ==
    /\ config.fields.username.value # <<>>
    /\ config.fields.password.value # <<>>
    /\ config.fields.tenantid.value # <<>>
    /\ config.fields.identity_url.value # <<>>

\* is_valid with || for &&.
is_valid_any(config) ==
    \/ config.fields.username.value # <<>>
    \/ config.fields.password.value # <<>>
    \/ config.fields.tenantid.value # <<>>
    \/ config.fields.identity_url.value # <<>>

is_valid(config) == validate(config)

-----------------------------------------------------------------------------
(* config.rs: the credential file.  A file is                              *)
(*   exists      the path ratatui-sample/config.json exists                *)
(*   utf8        read_to_string can read it                                *)
(*   wellformed  its text is syntactically a JSON object                   *)
(*   members     the object's members, in order, as <<key, value>> pairs   *)

NoFile == [exists |-> FALSE, utf8 |-> FALSE, wellformed |-> FALSE, members |-> <<>>]

JsonFile(members) ==
    [exists |-> TRUE, utf8 |-> TRUE, wellformed |-> TRUE, members |-> members]

\* Text that is no JSON object, e.g. what a truncated write leaves behind.
GarbageFile == [exists |-> TRUE, utf8 |-> TRUE, wellformed |-> FALSE, members |-> <<>>]

BinaryFile == [exists |-> TRUE, utf8 |-> FALSE, wellformed |-> FALSE, members |-> <<>>]

ConfigKeys == <<"username", "password", "tenantid", "identity_url">>

\* serde_json::to_string(self): the four serialised fields in declaration
\* order; focus, message and fields are #[serde(skip)].
to_string(config) ==
    <<<<"username", config.username>>, <<"password", config.password>>,
      <<"tenantid", config.tenantid>>, <<"identity_url", config.identity_url>>>>

Lookup(members, key) ==
    members[CHOOSE i \in 1..Len(members) : members[i][1] = key][2]

\* serde_json::from_str::<Config>: every one of the four keys is required,
\* exactly once; unknown keys are ignored; skipped fields take their default.
from_str_ok(f) ==
    /\ f.wellformed
    /\ \A k \in 1..Len(ConfigKeys) :
          Cardinality({i \in 1..Len(f.members) : f.members[i][1] = ConfigKeys[k]}) = 1

from_str(f) ==
    [ConfigDefault EXCEPT !.username = Lookup(f.members, "username"),
                          !.password = Lookup(f.members, "password"),
                          !.tenantid = Lookup(f.members, "tenantid"),
                          !.identity_url = Lookup(f.members, "identity_url")]

\* load returning whatever parses.
load_unvalidated(config_dir, f) ==
    IF ~config_dir THEN ConfigDefault
    ELSE IF ~f.exists THEN ConfigDefault
    ELSE IF ~f.utf8 THEN ConfigDefault
    ELSE IF ~from_str_ok(f) THEN ConfigDefault
    ELSE LET parsed == from_str(f)
         IN  [parsed EXCEPT !.fields = FieldsFrom(parsed)]

load(config_dir, f) ==
    IF ~config_dir THEN ConfigDefault
    ELSE IF ~f.exists THEN ConfigDefault
    ELSE IF ~f.utf8 THEN ConfigDefault
    ELSE IF ~from_str_ok(f) THEN ConfigDefault
    ELSE LET parsed == from_str(f)
             config == [parsed EXCEPT !.fields = FieldsFrom(parsed)]
         IN  IF validate(config) THEN config ELSE ConfigDefault

\* The outcomes of the file system calls of save.
SaveIo == {"ok", "mkdir_err", "write_err", "write_err_truncated"}

\* The Display text of the std::io::Error.
IoErrorText(io) == <<"io error">>

\* save reporting success although the write failed.
save_swallow(config, config_dir, f, io) ==
    IF ~config_dir THEN [ok |-> TRUE, err |-> <<>>, config |-> config, file |-> f]
    ELSE IF io = "mkdir_err"
    THEN [ok |-> FALSE, err |-> IoErrorText(io), config |-> config, file |-> f]
    ELSE LET c == [config EXCEPT !.username = config.fields.username.value,
                                 !.password = config.fields.password.value,
                                 !.tenantid = config.fields.tenantid.value,
                                 !.identity_url = config.fields.identity_url.value]
         IN  CASE io = "write_err" ->
                    [ok |-> TRUE, err |-> <<>>, config |-> c, file |-> f]
               [] io = "write_err_truncated" ->
                    [ok |-> TRUE, err |-> <<>>, config |-> c, file |-> GarbageFile]
               [] OTHER ->
                    [ok |-> TRUE, err |-> <<>>, config |-> c,
                     file |-> JsonFile(to_string(c))]

\* Config::save.  Returns the Result, the Config after the call and the file
\* after the call.
save(config, config_dir, f, io) ==
    IF ~config_dir THEN [ok |-> TRUE, err |-> <<>>, config |-> config, file |-> f]
    ELSE IF io = "mkdir_err"
    THEN [ok |-> FALSE, err |-> IoErrorText(io), config |-> config, file |-> f]
    ELSE LET c == [config EXCEPT !.username = config.fields.username.value,
                                 !.password = config.fields.password.value,
                                 !.tenantid = config.fields.tenantid.value,
                                 !.identity_url = config.fields.identity_url.value]
         IN  CASE io = "write_err" ->
                    [ok |-> FALSE, err |-> IoErrorText(io), config |-> c, file |-> f]
               [] io = "write_err_truncated" ->
                    [ok |-> FALSE, err |-> IoErrorText(io), config |-> c,
                     file |-> GarbageFile]
               [] OTHER ->
                    [ok |-> TRUE, err |-> <<>>, config |-> c,
                     file |-> JsonFile(to_string(c))]

\* Config::handle_events.  Returns the next AppState, the Config after the
\* call and the file after the call.
handle_events(config, event, config_dir, f, io) ==
    CASE event.code = "None" -> [state |-> Loading, config |-> config, file |-> f]
      [] event.code = "Esc" -> [state |-> Quit, config |-> config, file |-> f]
      [] event.code = "Tab" ->
            [state |-> Loading, config |-> [config EXCEPT !.focus = FocusNext(@)],
             file |-> f]
      [] event.code = "Enter" ->
            IF is_valid(config)
            THEN LET s == save(config, config_dir, f, io)
                 IN  IF ~s.ok
                     THEN [state |-> Loading,
                           config |-> [s.config EXCEPT !.message =
                                          <<"Error saving config: ">> \o s.err],
                           file |-> s.file]
                     ELSE [state |-> IssueToken(s.config.fields.username.value,
                                                s.config.fields.password.value,
                                                s.config.fields.tenantid.value,
                                                s.config.fields.identity_url.value),
                           config |-> s.config, file |-> s.file]
            ELSE [state |-> Loading,
                  config |-> [config EXCEPT !.message = <<"Please fill in all fields.">>],
                  file |-> f]
      [] OTHER ->
            [state |-> Loading,
             config |->
                CASE config.focus = "Username" ->
                        [config EXCEPT !.fields.username = StringFieldOnKeyPress(@, event)]
                  [] config.focus = "Password" ->
                        [config EXCEPT !.fields.password = PasswordFieldOnKeyPress(@, event)]
                  [] config.focus = "TenantId" ->
                        [config EXCEPT !.fields.tenantid = StringFieldOnKeyPress(@, event)]
                  [] config.focus = "IdentityUrl" ->
                        [config EXCEPT !.fields.identity_url = StringFieldOnKeyPress(@, event)],
             file |-> f]

-----------------------------------------------------------------------------
(* openstack/category.rs and openstack/token.rs: the identity call *)

\* from_type taking an unknown type for Compute.
from_type_compute(type_) ==
    CASE type_ = "identity" -> "Identity"
      [] type_ = "compute" -> "Compute"
      [] OTHER -> "Compute"

from_type(type_) ==
    CASE type_ = "identity" -> "Identity"
      [] type_ = "compute" -> "Compute"
      [] OTHER -> "Identity"

Endpoint(url, category) == [url |-> url, category |-> category]

\* cat.endpoints.iter().map(|ep| Endpoint {..}) for one catalog entry.
CatalogEndpoints(cat) ==
    [i \in 1..Len(cat.endpoints) |->
        Endpoint(cat.endpoints[i].url, from_type(cat.type_))]

\* body.token.catalog.iter().flat_map(..).collect()
RECURSIVE FlatMapEndpoints(_)
FlatMapEndpoints(catalog) ==
    IF catalog = <<>> THEN <<>>
    ELSE CatalogEndpoints(Head(catalog)) \o FlatMapEndpoints(Tail(catalog))

\* An identity response (or the lack of one):
\*   sent          client.post(..).send() returned a response
\*   status        its status code
\*   header        the X-Subject-Token header values (none or one)
\*   header_ascii  to_str() accepts the header value
\*   body_ok       the body decodes as IssueTokenResponse
\*   catalog       body.token.catalog
IdentityResponse(sent, status, header, header_ascii, body_ok, catalog) ==
    [sent |-> sent, status |-> status, header |-> header,
     header_ascii |-> header_ascii, body_ok |-> body_ok, catalog |-> catalog]

\* No response: send() returned an Err, or no request is being worked on.
NoResponse == IdentityResponse(FALSE, 0, <<>>, FALSE, FALSE, <<>>)

CREATED == 201

OK == 200

Ok(value) == [ok |-> TRUE, value |-> value, err |-> <<>>]

Err(text) == [ok |-> FALSE, value |-> <<>>, err |-> text]

TokenResponse(t, e) == [token |-> t, endpoints |-> e]

\* issue_token looking for the header before it checks the status.
issue_token_header_first(userid, password, tenantid, identity_url, resp) ==
    IF ~resp.sent THEN Err(<<"error sending request">>)
    ELSE IF resp.header = <<>> \/ ~resp.header_ascii
    THEN Err(<<"Missing X-Subject-Token header">>)
    ELSE IF resp.status # CREATED
    THEN Err(<<"Unexpected status: ", ToString(resp.status)>>)
    ELSE IF ~resp.body_ok THEN Err(<<"error decoding response body">>)
    ELSE Ok(TokenResponse(resp.header[1], FlatMapEndpoints(resp.catalog)))

\* token::issue_token, given the response the identity service gives to
\* the request it sends.
issue_token(userid, password, tenantid, identity_url, resp) ==
    IF ~resp.sent THEN Err(<<"error sending request">>)
    ELSE IF resp.status # CREATED
    THEN Err(<<"Unexpected status: ", ToString(resp.status)>>)
    ELSE IF resp.header = <<>> \/ ~resp.header_ascii
    THEN Err(<<"Missing X-Subject-Token header">>)
    ELSE IF ~resp.body_ok THEN Err(<<"error decoding response body">>)
    ELSE Ok(TokenResponse(resp.header[1], FlatMapEndpoints(resp.catalog)))

-----------------------------------------------------------------------------
(* openstack/server.rs: Shared View State and the resource call *)

\* Largest number of servers one resource response lists.
MaxServers == 2

Idle == [tag |-> "Idle", msg |-> <<>>]

LoadingState == [tag |-> "Loading", msg |-> <<>>]

Loaded == [tag |-> "Loaded", msg |-> <<>>]

Error(msg) == [tag |-> "Error", msg |-> msg]

\* Option<usize>: None is <<>>, Some(i) is <<i>>.
None == <<>>

Some(i) == <<i>>

TableStateDefault == [offset |-> 0, selected |-> None]

ServerListStateDefault ==
    [servers |-> <<>>, loading_state |-> Idle, table_state |-> TableStateDefault]

ServerState(id, name) == [id |-> id, name |-> name]

\* A resource response (or the lack of one):
\*   sent     client.get(..).send() returned a response
\*   status   its status code
\*   body_ok  the body decodes as ServersDetail
\*   servers  body.servers, each a Server_
ResourceResponse(sent, status, body_ok, servers) ==
    [sent |-> sent, status |-> status, body_ok |-> body_ok, servers |-> servers]

Server_(i) ==
    [id |-> <<"id", i>>, name |-> <<"vm", i>>, status |-> "ACTIVE",
     task_state |-> None, vm_state |-> "active"]

\* list_servers_detail, given the response the compute service gives.
list_servers_detail(url, resp) ==
    IF ~resp.sent THEN Err(<<"error sending request">>)
    ELSE IF resp.status # OK
    THEN Err(<<"Unexpected status: ", ToString(resp.status)>>)
    ELSE IF ~resp.body_ok THEN Err(<<"error decoding response body">>)
    ELSE Ok([servers |-> resp.servers])

\* TableState::select
select(table_state, index) ==
    [offset |-> IF index = None THEN 0 ELSE table_state.offset, selected |-> index]

set_loading_state(st, loading_state) ==
    [st EXCEPT !.loading_state = loading_state]

\* servers.servers.iter().map(|s| ServerState {..})
ServerStates(detail) ==
    [i \in 1..Len(detail.servers) |->
        ServerState(detail.servers[i].id, detail.servers[i].name)]

\* The three writes of on_load, in order.
on_load_status(st) == [st EXCEPT !.loading_state = Loaded]

\* on_load replacing the records.
on_load_replace(st, detail) == [st EXCEPT !.servers = ServerStates(detail)]

on_load_extend(st, detail) == [st EXCEPT !.servers = @ \o ServerStates(detail)]

on_load_select(st) ==
    IF st.servers # <<>>
    THEN [st EXCEPT !.table_state = select(@, Some(0))]
    ELSE st

on_load(st, detail) == on_load_select(on_load_extend(on_load_status(st), detail))

\* on_err reporting the fetch as done.
on_err_loaded(st, err) == set_loading_state(st, Loaded)

on_err(st, err) == set_loading_state(st, Error(err))

\* What StatefulWidget::render of the Table does to the TableState it is
\* handed: a selection past the last row is clamped, no rows means no
\* selection, and the offset is moved so that the selected row is visible
\* (row 0 always is).
TableRender(st) ==
    LET n == Len(st.servers)
        t1 == IF st.table_state.selected # None /\ st.table_state.selected[1] >= n
              THEN select(st.table_state, Some(IF n = 0 THEN 0 ELSE n - 1))
              ELSE st.table_state
        t2 == IF n = 0 THEN select(t1, None) ELSE t1
    IN  [t2 EXCEPT !.offset =
            IF t2.selected # None /\ t2.selected[1] < @ THEN t2.selected[1] ELSE @]

\* Widget for &ServerListWidget: render, under the write lock.
render(st) == [st EXCEPT !.table_state = TableRender(st)]

ServerUrl == "http://localhost:5000"

-----------------------------------------------------------------------------
(* The environment of one run *)

A1 == <<"a">>

A2 == <<"a", "a">>

Members(u, p, t, i) ==
    <<<<"username", u>>, <<"password", p>>, <<"tenantid", t>>, <<"identity_url", i>>>>

\* The credential files a run may start with.
InitialFiles ==
    {NoFile, BinaryFile, GarbageFile,
     JsonFile(Members(A1, A2, A1, A1)),
     JsonFile(<<<<"identity_url", A1>>, <<"extra", A1>>, <<"tenantid", A1>>,
                <<"password", A1>>, <<"username", A1>>>>),
     JsonFile(<<<<"userid", A1>>, <<"password", A1>>, <<"tenantid", A1>>,
                <<"identity_url", A1>>>>),
     JsonFile(Members(A1, A1, A1, A1) \o <<<<"username", A1>>>>),
     JsonFile(Members(<<>>, A1, A1, A1)),
     JsonFile(Members(A1, A1, A1, <<>>)),
     JsonFile(Members(<<>>, <<>>, <<>>, <<>>))}

Catalog(type_, urls) ==
    [type_ |-> type_, endpoints |-> [i \in 1..Len(urls) |-> [url |-> urls[i]]]]

\* The answers the identity service may give.
IdentityResponses ==
    {NoResponse,
     IdentityResponse(TRUE, 400, <<"t0">>, TRUE, TRUE, <<>>),
     IdentityResponse(TRUE, CREATED, <<>>, FALSE, TRUE, <<>>),
     IdentityResponse(TRUE, CREATED, <<"t1">>, TRUE, FALSE, <<>>),
     IdentityResponse(TRUE, CREATED, <<"t1">>, TRUE, TRUE,
                      <<Catalog("compute", <<"http://example.com">>)>>),
     IdentityResponse(TRUE, CREATED, <<"t2">>, TRUE, TRUE,
                      <<Catalog("identity", <<"http://id1", "http://id2">>),
                        Catalog("network", <<"http://net">>),
                        Catalog("compute", <<>>)>>)}

\* The answers the compute service may give.
ResourceResponses ==
    {ResourceResponse(FALSE, 0, FALSE, <<>>),
     ResourceResponse(TRUE, 500, TRUE, <<>>),
     ResourceResponse(TRUE, CREATED, TRUE, <<Server_(1)>>),
     ResourceResponse(TRUE, OK, FALSE, <<>>)}
        \cup {ResourceResponse(TRUE, OK, TRUE, [i \in 1..n |-> Server_(i)]) :
                n \in 0..MaxServers}

-----------------------------------------------------------------------------
(* The program state *)

VARIABLES
    pc,           \* where the main task is: "init", "run", "await_token",
                  \* "match_token", "server_loop", "server_render",
                  \* "server_draw", "returned", "exited"
    state,        \* App.state
    token,        \* App.token
    iresp,        \* the identity response issue_token is working on
    tres,         \* the Result issue_token gave App::run
    endpoints,    \* App.endpoints
    config,       \* App.config
    config_dir,   \* dirs::config_dir() is Some(..)
    file,         \* the credential file
    result,       \* what App::run returned: "none", "ok", "err"
    exit_code,    \* the process exit code, -1 while it runs
    should_quit,  \* Server.should_quit
    widget,       \* the ServerListState behind Arc<RwLock<..>>
    lock,         \* who holds the RwLock: "free", "render", "fetch"
    fpc,          \* where the fetch task is: "none", "spawned", "set_loading",
                  \* "request", "await", "got", "loaded", "extended",
                  \* "publish", "done"
    fres,         \* the Result list_servers_detail gave the fetch task
    submitted,    \* the last event Config::handle_events handled was Enter
    last_io,      \* how the file system calls of the last save went
    esc_pressed,  \* Server::handle_event was called with an Escape key press
    issued,       \* the TokenResponse of the last successful issue_token
    entries,      \* how often App.state became Server
    spawned,      \* how many fetch tasks were spawned
    requests      \* how many resource requests were sent

vars ==
    <<pc, state, token, iresp, tres, endpoints, config, config_dir, file, result, exit_code,
      should_quit, widget, lock, fpc, fres, submitted, last_io, esc_pressed,
      issued, entries, spawned, requests>>

app_vars == <<state, token, endpoints, config>>

token_vars == <<iresp, tres, issued, entries>>

server_vars == <<should_quit, widget, lock>>

fetch_vars == <<fpc, fres, spawned, requests>>

form_vars == <<submitted, last_io, esc_pressed>>

env_vars == <<config_dir, file>>

\* App::new
AppNew(dir, f) ==
    LET c == load(dir, f)
    IN  [token |-> "",
         endpoints |-> <<>>,
         config |-> c,
         state |-> IF is_valid(c)
                   THEN IssueToken(c.username, c.password, c.tenantid, c.identity_url)
                   ELSE Loading]

Init ==
    /\ config_dir \in BOOLEAN
    /\ file \in IF config_dir THEN InitialFiles ELSE {NoFile}
    /\ LET app == AppNew(config_dir, file)
       IN  /\ state = app.state
           /\ token = app.token
           /\ endpoints = app.endpoints
           /\ config = app.config
    /\ pc = "init"
    /\ result = "none"
    /\ exit_code = -1
    /\ should_quit = FALSE
    /\ widget = ServerListStateDefault
    /\ lock = "free"
    /\ fpc = "none"
    /\ fres = Err(<<>>)
    /\ iresp = NoResponse
    /\ tres = Err(<<>>)
    /\ submitted = FALSE
    /\ last_io = "ok"
    /\ esc_pressed = FALSE
    /\ issued = TokenResponse("", <<>>)
    /\ entries = 0
    /\ spawned = 0
    /\ requests = 0

-----------------------------------------------------------------------------
(* main.rs: tokio_main and main *)

\* ratatui::init() acquired the terminal.
InitTerminal ==
    /\ pc = "init"
    /\ pc' = "run"
    /\ UNCHANGED <<app_vars, env_vars, result, exit_code, server_vars, fetch_vars,
                   form_vars, token_vars>>

\* ratatui::init() panics when it cannot acquire the terminal.
InitTerminalFails ==
    /\ pc = "init"
    /\ pc' = "exited"
    /\ exit_code' = 101
    /\ UNCHANGED <<app_vars, env_vars, result, server_vars, fetch_vars,
                   form_vars, token_vars>>

\* ratatui::restore(), then main maps Ok to exit code 0 and Err to 1.
MainExit ==
    /\ pc = "returned"
    /\ pc' = "exited"
    /\ exit_code' = IF result = "ok" THEN 0 ELSE 1
    /\ UNCHANGED <<app_vars, env_vars, result, server_vars, fetch_vars,
                   form_vars, token_vars>>

-----------------------------------------------------------------------------
(* app.rs: App::run *)

is_running(s) == s # Quit

\* The keyboard types no more than MaxLen characters into a field.
Typable(c, event) ==
    event.code = "Char" =>
        LET f == c.fields
        IN  CASE c.focus = "Username" -> Len(f.username.value) < MaxLen
              [] c.focus = "Password" -> Len(f.password.value) < MaxLen
              [] c.focus = "TenantId" -> Len(f.tenantid.value) < MaxLen
              [] c.focus = "IdentityUrl" -> Len(f.identity_url.value) < MaxLen

\* save reaches its file system calls only on Enter with a valid form and a
\* configuration directory.
IoOutcomes(c, event) ==
    IF event.code = "Enter" /\ is_valid(c) /\ config_dir THEN SaveIo ELSE {"ok"}

\* AppState::Loading: the form is drawn (the Result of draw is dropped),
\* event::read() returns an event and handle_events gives the next state.
RunLoading ==
    /\ pc = "run"
    /\ is_running(state)
    /\ state.tag = "Loading"
    /\ \E event \in Events :
          /\ Typable(config, event)
          /\ \E io \in IoOutcomes(config, event) :
                LET r == handle_events(config, event, config_dir, file, io)
                IN  /\ state' = r.state
                    /\ config' = r.config
                    /\ file' = r.file
                    /\ submitted' = (event.code = "Enter")
                    /\ last_io' = io
    /\ UNCHANGED <<pc, token, endpoints, config_dir, result, exit_code, server_vars,
                   fetch_vars, esc_pressed, token_vars>>

\* AppState::Loading: event::read()? fails and run returns the error.
RunLoadingReadFails ==
    /\ pc = "run"
    /\ is_running(state)
    /\ state.tag = "Loading"
    /\ pc' = "returned"
    /\ result' = "err"
    /\ UNCHANGED <<app_vars, env_vars, exit_code, server_vars, fetch_vars, form_vars,
                   token_vars>>

\* AppState::IssueToken: issue_token(..) is called and awaited; the main
\* task does nothing else until the call returns.
RunIssueToken ==
    /\ pc = "run"
    /\ is_running(state)
    /\ state.tag = "IssueToken"
    /\ pc' = "await_token"
    /\ UNCHANGED <<app_vars, env_vars, result, exit_code, server_vars, fetch_vars,
                   form_vars, token_vars>>

\* issue_token(..).await returns its Result.
RunIssueTokenReturns ==
    /\ pc = "await_token"
    /\ \E resp \in IdentityResponses :
          LET r == issue_token(state.username, state.password, state.tenantid,
                               state.identity_url, resp)
          IN  /\ iresp' = resp
              /\ tres' = r
              /\ issued' = IF r.ok THEN r.value ELSE issued
    /\ pc' = "match_token"
    /\ UNCHANGED <<app_vars, env_vars, result, exit_code, server_vars, fetch_vars,
                   form_vars, entries>>

\* The match with an Err arm that does not store the message.
IssueTokenResultNoMessage(r) ==
    IF r.ok
    THEN /\ token' = r.value.token
         /\ endpoints' = r.value.endpoints
         /\ state' = Server
         /\ entries' = entries + 1
         /\ UNCHANGED config
    ELSE /\ state' = Loading
         /\ UNCHANGED <<config, token, endpoints, entries>>

\* The match with an Ok arm that does not store the endpoints.
IssueTokenResultNoEndpoints(r) ==
    IF r.ok
    THEN /\ token' = r.value.token
         /\ state' = Server
         /\ entries' = entries + 1
         /\ UNCHANGED <<config, endpoints>>
    ELSE /\ config' = [config EXCEPT !.message = <<"Error issuing token: ">> \o r.err]
         /\ state' = Loading
         /\ UNCHANGED <<token, endpoints, entries>>

\* The arms of the match on the Result of issue_token.
IssueTokenResult(r) ==
    IF r.ok
    THEN /\ token' = r.value.token
         /\ endpoints' = r.value.endpoints
         /\ state' = Server
         /\ entries' = entries + 1
         /\ UNCHANGED config
    ELSE /\ config' = [config EXCEPT !.message = <<"Error issuing token: ">> \o r.err]
         /\ state' = Loading
         /\ UNCHANGED <<token, endpoints, entries>>

\* The match on the Result; the Result is dropped at its end.
RunIssueTokenMatch ==
    /\ pc = "match_token"
    /\ IssueTokenResult(tres)
    /\ iresp' = NoResponse
    /\ tres' = Err(<<>>)
    /\ pc' = "run"
    /\ UNCHANGED <<env_vars, result, exit_code, server_vars, fetch_vars, form_vars,
                   issued>>

\* AppState::Server: Server::new, then Server::run up to its loop:
\* self.widget.run(url) spawns the fetch task.
RunServer ==
    /\ pc = "run"
    /\ is_running(state)
    /\ state.tag = "Server"
    /\ should_quit' = FALSE
    /\ widget' = ServerListStateDefault
    /\ lock' = "free"
    /\ fpc' = "spawned"
    /\ spawned' = spawned + 1
    /\ pc' = "server_loop"
    /\ UNCHANGED <<app_vars, env_vars, result, exit_code, fres, requests, form_vars,
                   token_vars>>

\* RunQuit returning an error.
RunQuitErr ==
    /\ pc = "run"
    /\ ~is_running(state) \/ state.tag = "Quit"
    /\ pc' = "returned"
    /\ result' = "err"
    /\ UNCHANGED <<app_vars, env_vars, exit_code, server_vars, fetch_vars, form_vars,
                   token_vars>>

\* AppState::Quit, or the loop condition !is_running(): run returns Ok(()).
RunQuit ==
    /\ pc = "run"
    /\ ~is_running(state) \/ state.tag = "Quit"
    /\ pc' = "returned"
    /\ result' = "ok"
    /\ UNCHANGED <<app_vars, env_vars, exit_code, server_vars, fetch_vars, form_vars,
                   token_vars>>

-----------------------------------------------------------------------------
(* openstack/server.rs: Server::run *)

\* interval.tick() is ready: terminal.draw calls Server::render, which
\* calls the widget's render, which asks for the write lock.
ServerTick ==
    /\ pc = "server_loop"
    /\ ~should_quit
    /\ pc' = "server_render"
    /\ UNCHANGED <<app_vars, env_vars, result, exit_code, server_vars, fetch_vars,
                   form_vars, token_vars>>

\* render drawing without waiting for the lock.
ServerRenderNoLock ==
    /\ pc = "server_render"
    /\ lock' = "render"
    /\ widget' = render(widget)
    /\ pc' = "server_draw"
    /\ UNCHANGED <<app_vars, env_vars, result, exit_code, should_quit, fetch_vars,
                   form_vars, token_vars>>

\* self.state.write() returns once no one else holds the lock; the main
\* task is blocked until then.  render draws under the lock.
ServerRender ==
    /\ pc = "server_render"
    /\ lock = "free"
    /\ lock' = "render"
    /\ widget' = render(widget)
    /\ pc' = "server_draw"
    /\ UNCHANGED <<app_vars, env_vars, result, exit_code, should_quit, fetch_vars,
                   form_vars, token_vars>>

\* render returns and drops the lock; terminal.draw(..)? succeeds or fails.
ServerDrawn ==
    /\ pc = "server_draw"
    /\ lock' = "free"
    /\ \E ok \in BOOLEAN :
          IF ok THEN pc' = "server_loop" /\ UNCHANGED result
          ELSE pc' = "returned" /\ result' = "err"
    /\ UNCHANGED <<app_vars, env_vars, exit_code, should_quit, widget, fetch_vars,
                   form_vars, token_vars>>

\* handle_event quitting on every key press.
handle_event_any_key(quit, event) == IF event.code # "None" THEN TRUE ELSE quit

\* Server::handle_event
handle_event(quit, event) == IF event.code = "Esc" THEN TRUE ELSE quit

\* events.next() yields Some(Ok(event)).
ServerEvent ==
    /\ pc = "server_loop"
    /\ ~should_quit
    /\ \E event \in Events :
          /\ should_quit' = handle_event(should_quit, event)
          /\ esc_pressed' = (esc_pressed \/ event.code = "Esc")
    /\ UNCHANGED <<pc, app_vars, env_vars, result, exit_code, widget, lock, fetch_vars,
                   submitted, last_io, token_vars>>

\* Server::run returning to the form.
ServerReturnsLoading ==
    /\ pc = "server_loop"
    /\ should_quit
    /\ state' = Loading
    /\ pc' = "run"
    /\ UNCHANGED <<token, endpoints, config, env_vars, result, exit_code, server_vars,
                   fetch_vars, form_vars, token_vars>>

\* The loop ends, Server::run returns Ok(AppState::Quit) and App::run
\* stores it.
ServerReturns ==
    /\ pc = "server_loop"
    /\ should_quit
    /\ state' = Quit
    /\ pc' = "run"
    /\ UNCHANGED <<token, endpoints, config, env_vars, result, exit_code, server_vars,
                   fetch_vars, form_vars, token_vars>>

-----------------------------------------------------------------------------
(* openstack/server.rs: the fetch task, ServerListWidget::fetch_servers.   *)
(* It runs until the process exits.                                        *)

\* fetch_servers without its first write.
FetchSkipLoading ==
    /\ pc # "exited"
    /\ fpc = "spawned"
    /\ lock = "free"
    /\ lock' = "fetch"
    /\ fpc' = "set_loading"
    /\ UNCHANGED <<pc, app_vars, env_vars, result, exit_code, should_quit, widget, fres,
                   spawned, requests, form_vars, token_vars>>

\* self.set_loading_state(LoadingState::Loading): the write lock is taken.
FetchSetLoading ==
    /\ pc # "exited"
    /\ fpc = "spawned"
    /\ lock = "free"
    /\ lock' = "fetch"
    /\ widget' = set_loading_state(widget, LoadingState)
    /\ fpc' = "set_loading"
    /\ UNCHANGED <<pc, app_vars, env_vars, result, exit_code, should_quit, fres,
                   spawned, requests, form_vars, token_vars>>

\* fetch_servers keeping the write guard of set_loading_state.
FetchUnlockKeep ==
    /\ pc # "exited"
    /\ fpc \in {"set_loading", "publish"}
    /\ lock = "fetch"
    /\ lock' = IF fpc = "set_loading" THEN lock ELSE "free"
    /\ fpc' = IF fpc = "set_loading" THEN "request" ELSE "done"
    /\ UNCHANGED <<pc, app_vars, env_vars, result, exit_code, should_quit, widget, fres,
                   spawned, requests, form_vars, token_vars>>

\* The write guard is dropped, at the end of set_loading_state or on_load.
FetchUnlock ==
    /\ pc # "exited"
    /\ fpc \in {"set_loading", "publish"}
    /\ lock = "fetch"
    /\ lock' = "free"
    /\ fpc' = IF fpc = "set_loading" THEN "request" ELSE "done"
    /\ UNCHANGED <<pc, app_vars, env_vars, result, exit_code, should_quit, widget, fres,
                   spawned, requests, form_vars, token_vars>>

\* list_servers_detail(url) sends GET {url}/servers/detail.
FetchRequest ==
    /\ pc # "exited"
    /\ fpc = "request"
    /\ requests' = requests + 1
    /\ fpc' = "await"
    /\ UNCHANGED <<pc, app_vars, env_vars, result, exit_code, server_vars, fres,
                   spawned, form_vars, token_vars>>

\* list_servers_detail(url).await returns.
FetchResponse ==
    /\ pc # "exited"
    /\ fpc = "await"
    /\ \E resp \in ResourceResponses : fres' = list_servers_detail(ServerUrl, resp)
    /\ fpc' = "got"
    /\ UNCHANGED <<pc, app_vars, env_vars, result, exit_code, server_vars, spawned,
                   requests, form_vars, token_vars>>

\* Ok(resp) => self.on_load(&resp), Err(err) => self.on_err(&err): the
\* write lock is taken and the status written, Loaded or Error.
FetchPublish ==
    /\ pc # "exited"
    /\ fpc = "got"
    /\ lock = "free"
    /\ lock' = "fetch"
    /\ widget' = IF fres.ok THEN on_load_status(widget) ELSE on_err(widget, fres.err)
    /\ fpc' = IF fres.ok THEN "loaded" ELSE "publish"
    /\ UNCHANGED <<pc, app_vars, env_vars, result, exit_code, should_quit, fres,
                   spawned, requests, form_vars, token_vars>>

\* on_load: state.servers.extend(servers), still under the lock.
FetchExtend ==
    /\ pc # "exited"
    /\ fpc = "loaded"
    /\ widget' = on_load_extend(widget, fres.value)
    /\ fpc' = "extended"
    /\ UNCHANGED <<pc, app_vars, env_vars, result, exit_code, should_quit, lock, fres,
                   spawned, requests, form_vars, token_vars>>

\* on_load: the selection, still under the lock.
FetchSelect ==
    /\ pc # "exited"
    /\ fpc = "extended"
    /\ widget' = on_load_select(widget)
    /\ fpc' = "publish"
    /\ UNCHANGED <<pc, app_vars, env_vars, result, exit_code, should_quit, lock, fres,
                   spawned, requests, form_vars, token_vars>>

-----------------------------------------------------------------------------

Next ==
    \/ InitTerminal
    \/ InitTerminalFails
    \/ RunLoading
    \/ RunLoadingReadFails
    \/ RunIssueToken
    \/ RunIssueTokenReturns
    \/ RunIssueTokenMatch
    \/ RunServer
    \/ RunQuit
    \/ ServerTick
    \/ ServerRender
    \/ ServerDrawn
    \/ ServerEvent
    \/ ServerReturns
    \/ FetchSetLoading
    \/ FetchUnlock
    \/ FetchRequest
    \/ FetchResponse
    \/ FetchPublish
    \/ FetchExtend
    \/ FetchSelect
    \/ MainExit

Spec == Init /\ [][Next]_vars

-----------------------------------------------------------------------------
(* issue_token as a function of the response: the program was started with *)
(* a valid credential file, the identity request is in flight, and the     *)
(* identity service answers with any response.                             *)

\* Most entries of a catalog.
MaxCatalog == 2

\* Most endpoints of a catalog entry.
MaxEndpoints == 2

SeqsUpTo(S, n) == UNION {[1..k -> S] : k \in 0..n}

AnyCatalogs(n) ==
    SeqsUpTo({Catalog(t, urls) :
                 t \in {"compute", "identity", "network"},
                 urls \in SeqsUpTo({"http://example.com", "http://b"}, MaxEndpoints)},
             n)

\* Every shape of response with a catalog of at most one entry, and the
\* response issue_token accepts with every catalog.
AnyIdentityResponses ==
    {IdentityResponse(sent, status, header, ascii, body_ok, catalog) :
        sent \in BOOLEAN, status \in {OK, CREATED, 400},
        header \in {<<>>, <<"t1">>, <<"t1", "t2">>},
        ascii \in BOOLEAN, body_ok \in BOOLEAN, catalog \in AnyCatalogs(1)}
      \cup {IdentityResponse(TRUE, CREATED, <<"t1">>, TRUE, TRUE, catalog) :
                catalog \in AnyCatalogs(MaxCatalog)}

TokenInit ==
    /\ config_dir = TRUE
    /\ file = JsonFile(Members(A1, A2, A1, A1))
    /\ LET app == AppNew(config_dir, file)
       IN  /\ state = app.state
           /\ token = app.token
           /\ endpoints = app.endpoints
           /\ config = app.config
    /\ pc = "await_token"
    /\ iresp \in AnyIdentityResponses
    /\ tres = Err(<<>>)
    /\ issued = TokenResponse("", <<>>)
    /\ result = "none"
    /\ exit_code = -1
    /\ should_quit = FALSE
    /\ widget = ServerListStateDefault
    /\ lock = "free"
    /\ fpc = "none"
    /\ fres = Err(<<>>)
    /\ submitted = FALSE
    /\ last_io = "ok"
    /\ esc_pressed = FALSE
    /\ entries = 0
    /\ spawned = 0
    /\ requests = 0

\* issue_token(..).await returns its Result for the response iresp.
TokenCall ==
    /\ pc = "await_token"
    /\ LET r == issue_token(state.username, state.password, state.tenantid,
                            state.identity_url, iresp)
       IN  /\ tres' = r
           /\ issued' = IF r.ok THEN r.value ELSE issued
    /\ pc' = "match_token"
    /\ UNCHANGED <<app_vars, env_vars, result, exit_code, server_vars, fetch_vars,
                   form_vars, iresp, entries>>

TokenNext == TokenCall

TokenSpec == TokenInit /\ [][TokenNext]_vars

-----------------------------------------------------------------------------
(* on_load and on_err as functions of the ServerListState they are applied *)
(* to: the main task is in the loop of Server::run, the fetch task has the *)
(* Result of list_servers_detail in hand, and the state behind the lock    *)
(* is any ServerListState.                                                 *)

\* Records of an earlier fetch.
OldServers(n) == [i \in 1..n |-> ServerState(<<"id", 10 + i>>, <<"vm", 10 + i>>)]

AnyServerListStates ==
    {[servers |-> OldServers(n), loading_state |-> l,
      table_state |-> [offset |-> o, selected |-> sel]] :
        n \in 0..MaxServers,
        l \in {Idle, LoadingState, Loaded, Error(<<"error sending request">>)},
        o \in 0..1,
        sel \in {None} \cup {Some(i) : i \in 0..MaxServers}}

\* The main task in the loop of Server::run after a start with a valid
\* credential file and an identity response with one compute endpoint.
InLiveView ==
    /\ config_dir = TRUE
    /\ file = JsonFile(Members(A1, A2, A1, A1))
    /\ config = load(config_dir, file)
    /\ state = Server
    /\ token = "t1"
    /\ endpoints = <<Endpoint("http://example.com", "Compute")>>
    /\ issued = TokenResponse(token, endpoints)
    /\ iresp = NoResponse
    /\ tres = Err(<<>>)
    /\ pc = "server_loop"
    /\ result = "none"
    /\ exit_code = -1
    /\ should_quit = FALSE
    /\ lock = "free"
    /\ submitted = FALSE
    /\ last_io = "ok"
    /\ esc_pressed = FALSE
    /\ entries = 1
    /\ spawned = 1

WidgetInit ==
    /\ InLiveView
    /\ fpc = "got"
    /\ requests = 1
    /\ widget \in AnyServerListStates
    /\ fres \in {list_servers_detail(ServerUrl, resp) : resp \in ResourceResponses}

\* Ok(resp) => self.on_load(&resp)
WidgetOnLoad ==
    /\ fpc = "got"
    /\ fres.ok
    /\ widget' = on_load(widget, fres.value)
    /\ fpc' = "done"
    /\ UNCHANGED <<pc, app_vars, env_vars, result, exit_code, should_quit, lock, fres,
                   spawned, requests, form_vars, token_vars>>

\* Err(err) => self.on_err(&err)
WidgetOnErr ==
    /\ fpc = "got"
    /\ ~fres.ok
    /\ widget' = on_err(widget, fres.err)
    /\ fpc' = "done"
    /\ UNCHANGED <<pc, app_vars, env_vars, result, exit_code, should_quit, lock, fres,
                   spawned, requests, form_vars, token_vars>>

WidgetNext == WidgetOnLoad \/ WidgetOnErr

WidgetSpec == WidgetInit /\ [][WidgetNext]_vars

-----------------------------------------------------------------------------
(* The live view from the entry into the loop of Server::run, the fetch    *)
(* task just spawned, under the scheduling of the tokio runtime.           *)

LiveViewInit ==
    /\ InLiveView
    /\ widget = ServerListStateDefault
    /\ fpc = "spawned"
    /\ fres = Err(<<>>)
    /\ requests = 0

LiveViewNext ==
    \/ ServerTick
    \/ ServerRender
    \/ ServerDrawn
    \/ ServerEvent
    \/ ServerReturns
    \/ RunQuit
    \/ MainExit
    \/ FetchSetLoading
    \/ FetchUnlock
    \/ FetchRequest
    \/ FetchResponse
    \/ FetchPublish
    \/ FetchExtend
    \/ FetchSelect

\* Escape is pressed and events.next() hands it to handle_event.
EscapeKey == ServerEvent /\ should_quit'

\* tokio::select! polls the timer and the event stream on every pass of the
\* loop and picks among the ready branches at random, so the tick is taken
\* and a pressed Escape is handled; the main task goes on whenever it is
\* not blocked; the runtime schedules the fetch task in each of its
\* synchronous sections.  Nothing makes the compute service answer.
LiveViewSpec ==
    /\ LiveViewInit
    /\ [][LiveViewNext]_vars
    /\ WF_vars(ServerTick)
    /\ WF_vars(ServerRender)
    /\ WF_vars(ServerDrawn)
    /\ SF_vars(EscapeKey)
    /\ WF_vars(ServerReturns)
    /\ WF_vars(RunQuit)
    /\ WF_vars(FetchSetLoading)
    /\ WF_vars(FetchUnlock)
    /\ WF_vars(FetchPublish)
    /\ WF_vars(FetchExtend)
    /\ WF_vars(FetchSelect)

-----------------------------------------------------------------------------
(* Properties *)

\* C1: once App.state is Server (the live view) the only other state it
\* ever takes is Quit, whatever the fetch task has done and whatever is
\* pressed, and it takes Quit only after an Escape key press reached
\* Server::handle_event.
C1_LiveViewOnlyToQuit ==
    [][state.tag = "Server" =>
          /\ state'.tag \in {"Server", "Quit"}
          /\ state'.tag = "Quit" => esc_pressed /\ should_quit]_vars

C1_Witness == state = Quit /\ entries = 1 /\ esc_pressed /\ widget.loading_state = Loaded

\* C2: Quit is terminal.  In state Quit the main task is at the top of the
\* run loop or past it; its only steps are the return of Ok(()) and the
\* exit with code 0; no step draws, reads a key, calls the identity service
\* or spawns a fetch task (nothing of App, the form, the credential file or
\* the counters of identity calls and fetch tasks changes).  The detached
\* fetch task may still step until the process exits.
C2_QuitState ==
    state.tag = "Quit" =>
        /\ pc \in {"run", "returned", "exited"}
        /\ pc # "run" => result = "ok"
        /\ pc = "exited" => exit_code = 0

C2_QuitStep ==
    state.tag = "Quit" =>
        /\ state' = state
        /\ UNCHANGED <<token, endpoints, config, tres, env_vars, should_quit, form_vars,
                       issued, entries, spawned>>
        /\ pc' # pc =>
              \/ pc = "run" /\ pc' = "returned" /\ result' = "ok"
              \/ pc = "returned" /\ pc' = "exited" /\ exit_code' = 0

C2_QuitTerminal == []C2_QuitState /\ [][C2_QuitStep]_vars

C2_Witness == state = Quit /\ pc = "exited" /\ exit_code = 0 /\ result = "ok"

\* C3: the state App::new builds is IssueToken with the persisted
\* credentials exactly when the credential file can be read, parses and
\* gives four non-empty values; in every other case it is Loading.
ValuesIn(f, key) ==
    {f.members[i][2] : i \in {j \in 1..Len(f.members) : f.members[j][1] = key}}

CountIn(f, key) == Cardinality({j \in 1..Len(f.members) : f.members[j][1] = key})

PersistedValues(key) == ValuesIn(file, key)

PersistedCount(key) == CountIn(file, key)

PersistedValid ==
    /\ config_dir /\ file.exists /\ file.utf8 /\ file.wellformed
    /\ \A key \in {"username", "password", "tenantid", "identity_url"} :
          PersistedCount(key) = 1 /\ <<>> \notin PersistedValues(key)

Persisted(key) == CHOOSE v \in PersistedValues(key) : TRUE

C3_InitialState ==
    pc = "init" =>
        IF PersistedValid
        THEN state = IssueToken(Persisted("username"), Persisted("password"),
                                Persisted("tenantid"), Persisted("identity_url"))
        ELSE state = Loading

C3_Witness ==
    /\ pc = "init"
    /\ state = IssueToken(A1, A2, A1, A1)
    /\ file = JsonFile(Members(A1, A2, A1, A1))

\* C4: when Enter is pressed on a form with at least one empty field,
\* is_valid is false, the next state is Loading with a non-empty message,
\* the credential file is not written and no identity call is started.
SomeFieldEmpty(c) ==
    \E v \in {c.fields.username.value, c.fields.password.value,
              c.fields.tenantid.value, c.fields.identity_url.value} : Len(v) = 0

\* A step of the form screen that handles Enter.
EnterStep == pc = "run" /\ state.tag = "Loading" /\ pc' = "run" /\ submitted'

C4_InvalidSubmit ==
    [][(EnterStep /\ SomeFieldEmpty(config)) =>
          /\ ~is_valid(config)
          /\ state' = Loading
          /\ config'.message # <<>>
          /\ file' = file
          /\ config'.fields = config.fields
          /\ UNCHANGED <<token, endpoints, tres, issued, entries>>]_vars

C4_Witness ==
    /\ pc = "run" /\ state = Loading /\ submitted
    /\ SomeFieldEmpty(config) /\ ~validate(config)
    /\ config.fields.username.value # <<>>
    /\ config.message = <<"Please fill in all fields.">>

\* C5: on a form with four non-empty fields is_valid is true, and when
\* Enter on the form makes the state IssueToken the credential file holds,
\* already then, exactly the four values the state carries, which are the
\* values of the form fields.
FileHolds(f, key, value) ==
    /\ f.exists /\ f.utf8 /\ f.wellformed
    /\ CountIn(f, key) = 1
    /\ ValuesIn(f, key) = {value}

C5_PersistedBeforeAuthenticate ==
    [][(EnterStep /\ ~SomeFieldEmpty(config)) =>
          /\ is_valid(config)
          /\ state'.tag = "IssueToken" =>
                /\ FileHolds(file', "username", state'.username)
                /\ FileHolds(file', "password", state'.password)
                /\ FileHolds(file', "tenantid", state'.tenantid)
                /\ FileHolds(file', "identity_url", state'.identity_url)
                /\ state'.username = config'.fields.username.value
                /\ state'.password = config'.fields.password.value
                /\ state'.tenantid = config'.fields.tenantid.value
                /\ state'.identity_url = config'.fields.identity_url.value]_vars

\* C6: when Enter is pressed on a form with four non-empty fields and a
\* file system call of save fails, the next state is Loading with a
\* non-empty message, no identity call is started and the run loop goes on.
C6_SaveFailure ==
    [][(EnterStep /\ ~SomeFieldEmpty(config) /\ last_io' # "ok") =>
          /\ state' = Loading
          /\ config'.message # <<>>
          /\ config'.fields = config.fields
          /\ is_running(state')
          /\ result' = "none" /\ exit_code' = -1
          /\ UNCHANGED <<token, endpoints, tres, issued, entries>>]_vars

C6_Witness ==
    /\ pc = "run" /\ state = Loading /\ submitted /\ last_io = "write_err"
    /\ validate(config)
    /\ config.message = <<"Error saving config: ", "io error">>

\* C7: when issue_token returns an Err, whatever its kind, the next state
\* is Loading with the form message "Error issuing token: " followed by the
\* error text, token and endpoints are unchanged, the form fields hold the
\* credentials that were tried and run neither returns nor exits.
C7_IdentityFailure ==
    [][(pc = "match_token" /\ ~tres.ok) =>
          /\ state' = Loading
          /\ tres.err # <<>>
          /\ config'.message = <<"Error issuing token: ">> \o tres.err
          /\ token' = token /\ endpoints' = endpoints
          /\ config'.fields = config.fields
          /\ config'.fields.username.value = state.username
          /\ config'.fields.password.value = state.password
          /\ config'.fields.tenantid.value = state.tenantid
          /\ config'.fields.identity_url.value = state.identity_url
          /\ pc' = "run" /\ result' = "none" /\ exit_code' = -1]_vars

C7_Witness ==
    /\ pc = "run" /\ state = Loading /\ validate(config)
    /\ config.message = <<"Error issuing token: ", "Missing X-Subject-Token header">>
    /\ token = "" /\ endpoints = <<>>

\* C8: the state becomes Server only from IssueToken and only in the match
\* on an Ok result of issue_token, and whenever the state is Server, token
\* and endpoints are those of the last Ok result.
C8_Entry ==
    (state.tag # "Server" /\ state'.tag = "Server") =>
        /\ state.tag = "IssueToken"
        /\ pc = "match_token" /\ tres.ok
        /\ token' = tres.value.token
        /\ endpoints' = tres.value.endpoints

C8_Stored ==
    state.tag = "Server" =>
        /\ entries >= 1
        /\ token = issued.token
        /\ endpoints = issued.endpoints

C8_LiveViewAfterIdentity == []C8_Stored /\ [][C8_Entry]_vars

C8_Witness ==
    /\ state = Server /\ pc = "server_loop"
    /\ token = "t2" /\ Len(endpoints) = 3 /\ endpoints[3].category = "Identity"

\* C9 as stated: by the time the program exits, the number of fetch tasks
\* spawned and the number of resource requests sent both equal the number
\* of times the state became Server, which is at most one.
C9_OneFetchPerEntry ==
    /\ entries <= 1
    /\ pc = "exited" => spawned = entries /\ requests = entries

\* C9, amended: the state becomes Server at most once; a fetch task is
\* spawned only in state Server, one at a time, and once Server::run is in
\* its loop, and at the exit, the number spawned equals the number of
\* entries; a request is sent only by a spawned task, at most one per task,
\* and the process may exit before the task has sent it.
C9_Counts ==
    /\ entries <= 1
    /\ spawned <= entries
    /\ requests <= spawned
    /\ pc \in {"server_loop", "server_render", "server_draw"} =>
          spawned = entries /\ spawned = 1
    /\ pc = "exited" => spawned = entries
    /\ fpc \in {"await", "got", "loaded", "extended", "publish", "done"} =>
          requests = spawned

C9_Steps ==
    /\ spawned' # spawned =>
          state.tag = "Server" /\ pc = "run" /\ spawned' = spawned + 1
    /\ requests' # requests => fpc = "request" /\ requests' = requests + 1

C9_OneFetchTask == []C9_Counts /\ [][C9_Steps]_vars

C9_Witness == pc = "exited" /\ entries = 1 /\ spawned = 1 /\ requests = 0

\* C10: the loading_state starts Idle, is Loading before the resource
\* request is sent, and changes only from Idle to Loading and from Loading
\* to Loaded or Error.
C10_State ==
    /\ fpc \in {"none", "spawned"} => widget.loading_state = Idle
    /\ fpc \in {"request", "await", "got"} => widget.loading_state = LoadingState
    /\ requests > 0 => widget.loading_state # Idle

C10_Step ==
    widget'.loading_state # widget.loading_state =>
        \/ widget.loading_state = Idle /\ widget'.loading_state = LoadingState
        \/ /\ widget.loading_state = LoadingState
           /\ widget'.loading_state.tag \in {"Loaded", "Error"}

C10_FetchStatusOrder == []C10_State /\ [][C10_Step]_vars

C10_Witness ==
    /\ fpc = "done" /\ requests = 1
    /\ widget.loading_state = Error(<<"Unexpected status: ", "500">>)

\* C11: when on_load is applied to a response of n records, the records
\* after it are the records before it followed by the n fetched ones, id
\* and name, in response order; the length grows by exactly n and the
\* loading_state is Loaded.
C11_AppendOnLoad ==
    [][(fpc = "got" /\ fres.ok /\ fpc' = "done") =>
          LET old == widget.servers
              new == widget'.servers
              got == fres.value.servers
          IN  /\ Len(new) = Len(old) + Len(got)
              /\ SubSeq(new, 1, Len(old)) = old
              /\ \A i \in 1..Len(got) :
                    /\ new[Len(old) + i].id = got[i].id
                    /\ new[Len(old) + i].name = got[i].name
              /\ widget'.loading_state = Loaded]_vars

C11_Witness ==
    /\ fpc = "done" /\ fres.ok /\ widget.loading_state = Loaded
    /\ Len(fres.value.servers) = 2 /\ Len(widget.servers) = 3
    /\ widget.servers[1] = ServerState(<<"id", 11>>, <<"vm", 11>>)
    /\ widget.servers[2] = ServerState(<<"id", 1>>, <<"vm", 1>>)
    /\ widget.servers[3] = ServerState(<<"id", 2>>, <<"vm", 2>>)

\* C12: when list_servers_detail returns an Err (no response, a status
\* other than 200, a body that does not decode), publishing it makes the
\* loading_state Error with the error text, which is not empty, and leaves
\* the records, the table state and the main task as they are; after it
\* the state is still Server and the main task still in the loop of
\* Server::run, unless Escape was pressed or a draw failed.
C12_Step ==
    (fpc = "got" /\ ~fres.ok /\ fpc' # fpc) =>
        /\ fres.err # <<>>
        /\ widget'.loading_state = Error(fres.err)
        /\ widget'.servers = widget.servers
        /\ widget'.table_state = widget.table_state
        /\ UNCHANGED <<pc, state, should_quit, result, exit_code>>

C12_State ==
    (fpc \in {"publish", "done"} /\ ~fres.ok) =>
        /\ widget.loading_state = Error(fres.err)
        /\ widget.servers = <<>>
        /\ widget.table_state.selected = None
        /\ (~esc_pressed /\ result = "none") =>
              /\ state = Server
              /\ pc \in {"server_loop", "server_render", "server_draw"}

C12_FetchFailure == []C12_State /\ [][C12_Step]_vars

C12_Witness ==
    /\ fpc = "done" /\ pc = "server_draw" /\ lock = "render" /\ state = Server
    /\ widget.loading_state = Error(<<"Unexpected status: ", "201">>)
    /\ widget.servers = <<>>

\* C13: issue_token returns Ok only for a response with status 201, an
\* X-Subject-Token header and a body that decodes; a response with another
\* status gives "Unexpected status: <code>" with or without the header; a
\* 201 response without the header gives the missing-header error whatever
\* its body; the token of an Ok result is the header value.
C13_IssueTokenChecks ==
    [][(pc = "await_token" /\ pc' = "match_token") =>
          LET r == iresp
              t == tres'
          IN  /\ t.ok => r.sent /\ r.status = 201 /\ r.header # <<>> /\ r.body_ok
              /\ (r.sent /\ r.status = 201 /\ r.header # <<>> /\ r.header_ascii
                     /\ r.body_ok) => t.ok
              /\ (r.sent /\ r.status # 201) =>
                    ~t.ok /\ t.err = <<"Unexpected status: ", ToString(r.status)>>
              /\ (r.sent /\ r.status = 201 /\ r.header = <<>>) =>
                    ~t.ok /\ t.err = <<"Missing X-Subject-Token header">>
              /\ t.ok => t.value.token = r.header[1]]_vars

C13_Witness ==
    /\ pc = "match_token"
    /\ iresp.sent /\ iresp.status = 400 /\ iresp.header = <<>> /\ iresp.body_ok
    /\ tres = Err(<<"Unexpected status: ", "400">>)

\* C14: the endpoints of an Ok result are one per endpoint URL of the
\* catalog, entry after entry and within an entry in the entry's order, so
\* as many as the entries have endpoints in total; each has its URL and the
\* category Compute when its entry's type is "compute", Identity otherwise.
RECURSIVE C14_Count(_, _)
C14_Count(catalog, k) ==
    IF k = 0 THEN 0 ELSE C14_Count(catalog, k - 1) + Len(catalog[k].endpoints)

C14_Endpoints ==
    [][(pc = "await_token" /\ pc' = "match_token" /\ tres'.ok) =>
          LET cat == iresp.catalog
              eps == tres'.value.endpoints
          IN  /\ Len(eps) = C14_Count(cat, Len(cat))
              /\ \A k \in 1..Len(cat) : \A j \in 1..Len(cat[k].endpoints) :
                    LET e == eps[C14_Count(cat, k - 1) + j]
                    IN  /\ e.url = cat[k].endpoints[j].url
                        /\ e.category = IF cat[k].type_ = "compute" THEN "Compute"
                                         ELSE "Identity"]_vars

C14_Witness ==
    /\ pc = "match_token" /\ tres.ok
    /\ iresp.catalog = <<Catalog("network", <<"http://b", "http://example.com">>),
                          Catalog("compute", <<"http://example.com">>)>>
    /\ tres.value.endpoints =
          <<Endpoint("http://b", "Identity"), Endpoint("http://example.com", "Identity"),
            Endpoint("http://example.com", "Compute")>>

\* C15: when Enter on a form with four non-empty fields makes save return
\* Ok (the state becomes IssueToken), load applied to the credential file
\* as save left it gives a Config with the username, password, tenantid and
\* identity_url of the form.
C15_RoundTrip ==
    [][(EnterStep /\ ~SomeFieldEmpty(config) /\ state'.tag = "IssueToken") =>
          LET loaded == load(config_dir, file')
          IN  /\ loaded.username = config.fields.username.value
              /\ loaded.password = config.fields.password.value
              /\ loaded.tenantid = config.fields.tenantid.value
              /\ loaded.identity_url = config.fields.identity_url.value]_vars

\* C16: the Config that load gives App::new is Config::default() when
\* there is no configuration directory or no file, when the file cannot be
\* read or is no JSON object, and when it is a JSON object with an empty
\* value; it is always either Config::default(), with four empty values, or
\* a Config with four non-empty values, which are the form fields too.
C16_Values(c) == {c.username, c.password, c.tenantid, c.identity_url}

C16_LoadTotal ==
    pc = "init" =>
        /\ (~config_dir \/ ~file.exists \/ ~file.utf8 \/ ~file.wellformed) =>
              config = ConfigDefault
        /\ (\E i \in 1..Len(file.members) :
                /\ file.members[i][1] \in {"username", "password", "tenantid",
                                            "identity_url"}
                /\ file.members[i][2] = <<>>) => config = ConfigDefault
        /\ \/ config = ConfigDefault /\ C16_Values(config) = {<<>>}
           \/ /\ <<>> \notin C16_Values(config)
              /\ config.fields.username.value = config.username
              /\ config.fields.password.value = config.password
              /\ config.fields.tenantid.value = config.tenantid
              /\ config.fields.identity_url.value = config.identity_url

C16_Witness ==
    /\ pc = "init" /\ config = ConfigDefault
    /\ file = JsonFile(Members(A1, A1, A1, <<>>))

\* C17: whenever the fetch task does not hold the lock, which is whenever
\* render can take it, the loading_state is Loaded exactly when the fetch
\* task has finished on_load, and then the records are the fetched ones
\* with row 0 selected if there are any; otherwise there are no records and
\* no selection.  render takes the lock only when it is free, and nothing
\* is written behind the lock while render holds it.
C17_Consistent ==
    LET loaded == widget.loading_state = Loaded
    IN  /\ loaded <=> (fpc = "done" /\ fres.ok)
        /\ loaded =>
              /\ Len(widget.servers) = Len(fres.value.servers)
              /\ \A i \in 1..Len(widget.servers) :
                    /\ widget.servers[i].id = fres.value.servers[i].id
                    /\ widget.servers[i].name = fres.value.servers[i].name
              /\ widget.table_state.selected =
                    IF widget.servers = <<>> THEN None ELSE Some(0)
        /\ ~loaded => widget.servers = <<>> /\ widget.table_state.selected = None

C17_State == lock # "fetch" => C17_Consistent

C17_Step ==
    /\ (lock' = "render" /\ lock # "render") => lock = "free" /\ C17_Consistent
    /\ lock = "render" => widget' = widget

C17_NoTornRead == []C17_State /\ [][C17_Step]_vars

C17_Witness ==
    /\ pc = "server_render" /\ lock = "fetch" /\ fpc = "loaded"
    /\ widget.loading_state = Loaded /\ widget.servers = <<>>
    /\ Len(fres.value.servers) = 2

\* C18: the fetch task holds the lock exactly while it is inside
\* set_loading_state, on_load or on_err, and never from the sending of the
\* request to the arrival of its Result; it takes the lock only when it is
\* free.  A render that asks for the lock while the request is in flight
\* gets it, and whoever waits for the lock waits for a holder that can go
\* on and release it, so the two tasks never block each other for good.
C18_State ==
    /\ lock = "fetch" <=> fpc \in {"set_loading", "loaded", "extended", "publish"}
    /\ fpc \in {"request", "await", "got"} => lock # "fetch"
    /\ lock = "render" <=> pc = "server_draw"
    /\ (pc = "server_render" /\ fpc \in {"request", "await"}) =>
          lock = "free" /\ ENABLED ServerRender
    /\ (pc = "server_render" /\ lock # "free") =>
          lock = "fetch" /\ ENABLED (FetchExtend \/ FetchSelect \/ FetchUnlock)
    /\ (fpc \in {"spawned", "got"} /\ lock # "free" /\ pc # "exited") =>
          lock = "render" /\ ENABLED ServerDrawn
    /\ pc \in {"server_loop", "server_render", "server_draw"} =>
          ENABLED (ServerTick \/ ServerRender \/ ServerDrawn \/ ServerEvent
                     \/ ServerReturns \/ FetchExtend \/ FetchSelect \/ FetchUnlock)

C18_Step ==
    /\ (lock' = "fetch" /\ lock # "fetch") =>
          lock = "free" /\ fpc \in {"spawned", "got"}
    /\ (requests' # requests \/ fres' # fres) => lock # "fetch" /\ lock' # "fetch"

C18_LockOnlyForWrites == []C18_State /\ [][C18_Step]_vars

C18_Witness == pc = "server_draw" /\ lock = "render" /\ fpc = "await" /\ requests = 1

\* C19: as long as the compute service has not answered the
\* loading_state is Loading; whatever the fetch task does, and also when
\* the answer never comes, a main task in the loop of Server::run gets to
\* draw again unless Escape ends the loop, and the live view ends in Quit
\* unless a draw fails.
C19_InLoop == pc \in {"server_loop", "server_render", "server_draw"}

C19_Responsive ==
    /\ [](fpc = "await" => widget.loading_state = LoadingState)
    /\ (pc \in {"server_loop", "server_render"}) ~> (pc = "server_draw" \/ should_quit)
    /\ (C19_InLoop /\ fpc = "await") ~> (state = Quit \/ result = "err")

C19_Witness ==
    /\ state = Quit /\ fpc = "await" /\ esc_pressed
    /\ widget.loading_state = LoadingState /\ result = "none"

\* C20: while the identity request is in flight, the main task can take a
\* step that reads a key press or draws, without the request returning.
C20_LoopStep == RunLoading \/ ServerTick \/ ServerRender \/ ServerEvent

C20_IdentityCallNotBlocking == pc = "await_token" => ENABLED C20_LoopStep

\* C21: a redraw of the live view leaves the records, the loading_state
\* and the table state as they are, a second redraw right after it would
\* too, and the redraw takes no write guard of the lock (lock = "render"
\* is the guard of self.state.write() in render).
C21_RenderStep == pc = "server_render" /\ pc' = "server_draw"

C21_RenderOnlyReads ==
    [][C21_RenderStep =>
          /\ widget' = widget
          /\ render(widget') = widget'
          /\ lock' # "render"]_vars

C23_NoFatalError ==
    /\ result # "err"
    /\ pc \in {"returned", "exited"} /\ exit_code # 101 =>
          result = "ok" /\ state = Quit
    /\ exit_code \in {-1, 0, 101}

====
